---- MODULE Spec2Model ----
(***************************************************************************)
(* Model of the Netatmo exporter (separated auth/fetch variant):           *)
(*   src/src/netatmo_api.py  NetatmoAuth, NetatmoWeatherStationAPI         *)
(*   src/src/client.py       the poll loop of __main__                     *)
(*                                                                         *)
(* The call sites client.py:103 and client.py:214 do not pass the `log`    *)
(* parameter that netatmo_api.py:59 and :175 declare; logging has no       *)
(* effect on the state modelled here, and the model binds it to the        *)
(* module logger of client.py:166.                                         *)
(*                                                                         *)
(* Time is in seconds.  HTTP calls are instantaneous (they are bounded by  *)
(* timeout=10 in the code); only sleep(interval) advances the clock.       *)
(*                                                                         *)
(* Spec is the program in an environment that delivers no signal;          *)
(* SpecSignals adds the delivery of SIGINT and SIGTERM to the process.     *)
(* SpecPyatmo is the loop of the pyatmo-based variant,                     *)
(*   src/netatmo-exporter/client.py  get_authorization and __main__        *)
(***************************************************************************)
EXTENDS Integers, Sequences, FiniteSets, TLC

VARIABLES
    pc,         \* position of the main thread: start-up, then the poll loop
    creds,      \* client_id, client_secret, refresh_token after config and env
    signalled,  \* the signals delivered to the process so far
    now,        \* time.time()
    file,       \* content of args.token_file
    auth,       \* fields of the NetatmoAuth instance of the current cycle
    err,        \* exception in flight ("none" when there is none)
    devices,    \* api.stations_data
    stations,   \* the result of api.get_stations() and the exception it raised
    metrics,    \* the Gauge children: series -> value
    cycle,      \* number of loop iterations started
    trace,      \* requests, projection and sleep of the current iteration
    lastHeaders, \* observation of the last evaluation of NetatmoAuth.headers
    lastRefresh, \* observation of the last call of NetatmoAuth.refresh
    lastList,    \* the last response of the stations endpoint
    prevCycle,   \* what the previous iteration ended with: the exception, the
                 \* trace, the devices it fetched and the metrics
    fileReads,   \* number of times the token file has been opened for reading
    pyatmo       \* the state of the pyatmo-based variant (SpecPyatmo)

vars == <<pc, creds, signalled, now, file, auth, err, devices, stations,
         metrics, cycle, trace, lastHeaders, lastRefresh, lastList, prevCycle,
         fileReads, pyatmo>>

----------------------------------------------------------------------------
(* Bounds of the model *)

MaxCycles == 2

\* the number of signals delivered to the process in one run
MaxSignals == 1

\* the number of failed connections in a row in one call of the pyatmo
\* variant's get_authorization
MaxAttempts == 3

\* the configured polling interval (client.py:145 reads it from the config)
interval == 30

----------------------------------------------------------------------------
(* Values *)

\* Python None for string-valued fields, and for time-valued fields
None == "None"
NoTime == -1

\* dict.get(key, default) found no key
Missing == "Missing"

\* Python truthiness of a string-or-None value (`not x`)
Falsy(x) == x = None \/ x = ""

\* Python truthiness of an int-or-None value (`if x`)
FalsyNum(x) == x = NoTime \/ x = 0

\* the refresh token of the configuration (client.py:152, :163)
ConfiguredRefreshToken == "R0"

\* getenv(name, default): the environment wins over the config file
getenv(env_value, default) == IF env_value # None THEN env_value ELSE default

\* lines 149-163: each credential comes from the config file, from the
\* environment, from both or from neither
Credentials ==
    {[client_id |-> getenv(e1, c1), client_secret |-> getenv(e2, c2),
      refresh_token |-> getenv(e3, c3)] :
        c1 \in {None, "id"}, e1 \in {None, "id"},
        c2 \in {None, "secret"}, e2 \in {None, "secret"},
        c3 \in {None, ConfiguredRefreshToken},
        e3 \in {None, ConfiguredRefreshToken}}

\* variant: the refresh token is not looked at
CredentialsMissing_IgnoresRefreshToken(c) ==
    c.client_id = None \/ c.client_secret = None

\* line 168: `client_id is None or client_secret is None or refresh_token is None`
CredentialsMissing(c) ==
    c.client_id = None \/ c.client_secret = None \/ c.refresh_token = None

\* the tokens the token endpoint issues
AccessTokens == {"A2"}
RefreshTokens == {"R1"}

\* the headers property refreshes when the token expires within this many seconds
RefreshMargin == 60

----------------------------------------------------------------------------
(* Exceptions *)

\* the except clauses of the poll loop (client.py:271-282)
CaughtByLoop == {"JSONDecodeError", "NetatmoThrottlingError",
                 "NetatmoAPIError", "NetatmoAuthError"}

----------------------------------------------------------------------------
(* The token file *)

File(k, at, rt, ex) ==
    [kind |-> k, access_token |-> at, refresh_token |-> rt, expires_at |-> ex]

\* no file at the path
FileAbsent == File("absent", None, None, NoTime)
\* a file json.load rejects (empty, truncated, not JSON)
FileCorrupt == File("corrupt", None, None, NoTime)
\* a file holding JSON that is not an object (a list, a string, null)
FileNonObject == File("nonobject", None, None, NoTime)
\* a file holding a JSON object; an absent key reads as None through dict.get
FileObject(at, rt, ex) == File("object", at, rt, ex)

\* the token files the process may find at startup
InitFiles ==
    {FileAbsent, FileCorrupt, FileNonObject,
     FileObject(None, None, NoTime),
     FileObject("A1", "R0", NoTime),
     FileObject(None, "R0", 200),
     FileObject("A1", None, 200)}
    \cup {FileObject("A1", "R0", ex) : ex \in {RefreshMargin, RefreshMargin + 1, 200}}

----------------------------------------------------------------------------
(* NetatmoAuth *)

Auth(at, rt, ex) ==
    [access_token |-> at, refresh_token |-> rt, token_expires_at |-> ex]

\* no instance constructed yet
NoAuth == Auth(None, None, NoTime)

\* variant of NetatmoAuthInit: only FileNotFoundError is caught
NetatmoAuthInit_CorruptRaises(_refresh_token, f) ==
    CASE f.kind = "absent" ->
            [auth |-> Auth(None, _refresh_token, NoTime), err |-> "none"]
      [] f.kind = "corrupt" ->
            [auth |-> Auth(None, _refresh_token, NoTime), err |-> "JSONDecodeError"]
      [] f.kind = "nonobject" ->
            [auth |-> Auth(None, _refresh_token, NoTime), err |-> "AttributeError"]
      [] f.kind = "object" ->
            [auth |-> Auth(f.access_token, f.refresh_token, f.expires_at),
             err |-> "none"]

\* variant of NetatmoAuthInit: the token file is not looked at
NetatmoAuthInit_IgnoresFile(_refresh_token, f) ==
    [auth |-> Auth(None, _refresh_token, NoTime), err |-> "none"]

\* NetatmoAuth.__init__: the result is the instance and the exception raised
NetatmoAuthInit(_refresh_token, f) ==
    CASE f.kind \in {"absent", "corrupt"} ->
            \* FileNotFoundError, json.JSONDecodeError: logged
            [auth |-> Auth(None, _refresh_token, NoTime), err |-> "none"]
      [] f.kind = "nonobject" ->
            \* _token_data.get on a list, a string or None
            [auth |-> Auth(None, _refresh_token, NoTime), err |-> "AttributeError"]
      [] f.kind = "object" ->
            [auth |-> Auth(f.access_token, f.refresh_token, f.expires_at),
             err |-> "none"]

\* a response of the token endpoint
TokenResp(k, st, b, e, at, rt, ei) ==
    [kind |-> k, status |-> st, body |-> b, error |-> e,
     access_token |-> at, refresh_token |-> rt, expires_in |-> ei]

\* the lifetimes the token endpoint may grant (NoTime: no expires_in key)
ExpiresIns == {NoTime, 0, RefreshMargin, 200}

TokenResponses ==
    \* requests.post raised: connection error, timeout
    {TokenResp("neterr", 0, "none", None, None, Missing, NoTime)}
    \cup {TokenResp("http", st, b, None, None, Missing, NoTime) :
            st \in {200, 400}, b \in {"notjson", "nonobject"}}
    \cup {TokenResp("http", 400, "object", e, None, Missing, NoTime) :
            e \in {None, "invalid_grant", "invalid_client"}}
    \cup {TokenResp("http", 500, b, None, None, Missing, NoTime) :
            b \in {"notjson", "object"}}
    \cup {TokenResp("http", 200, "object", None, at, rt, ei) :
            at \in AccessTokens,
            rt \in RefreshTokens \cup {None, Missing},
            ei \in ExpiresIns}
    \* a body without a usable access_token, taken with one refresh_token
    \* and one expires_in: the next evaluation of headers refreshes whatever
    \* the expiry is (line 154)
    \cup {TokenResp("http", 200, "object", None, at, rt, 200) :
            at \in {None, ""}, rt \in RefreshTokens}

\* what open(self.token_file, "w") and _f.write can do
WriteOutcomes == {"ok", "open_fails", "write_fails"}

\* variant of WriteTokenFile: the rotated refresh_token is not written
WriteTokenFile_KeepsOldRefreshToken(a, f, w) ==
    CASE w = "ok" ->
            [file |-> FileObject(a.access_token,
                                 IF f.kind = "object" THEN f.refresh_token
                                 ELSE ConfiguredRefreshToken,
                                 a.token_expires_at),
             err |-> "none"]
      [] w = "open_fails" ->
            [file |-> f, err |-> "OSError"]
      [] w = "write_fails" ->
            [file |-> FileCorrupt, err |-> "OSError"]

\* lines 137-143: the file after the write, and the exception raised
WriteTokenFile(a, f, w) ==
    CASE w = "ok" ->
            [file |-> FileObject(a.access_token, a.refresh_token, a.token_expires_at),
             err |-> "none"]
      [] w = "open_fails" ->
            [file |-> f, err |-> "OSError"]
      [] w = "write_fails" ->
            \* mode "w" truncated the file before the write failed
            [file |-> FileCorrupt, err |-> "OSError"]

\* lines 126-135: the fields after a 2xx response with a JSON object
TokenExpiresAt(t, expires_in) ==
    IF FalsyNum(expires_in) THEN NoTime ELSE t + expires_in

ApplyTokenData(a, resp, t) ==
    Auth(resp.access_token,
         IF resp.refresh_token = Missing THEN a.refresh_token ELSE resp.refresh_token,
         TokenExpiresAt(t, resp.expires_in))

\* lines 112-122: the exception a 400 response raises
Refresh400(resp) ==
    CASE resp.body = "notjson" -> "NetatmoAuthError"
      [] resp.body = "nonobject" -> "AttributeError"
      [] resp.body = "object" ->
            IF resp.error = "invalid_grant"
            THEN "NetatmoAuthErrorTokenExpired"
            ELSE "NetatmoAuthError"

\* NetatmoAuth.refresh: the instance, the file and the exception raised
Refresh(a, f, resp, w, t) ==
    LET fail(e) == [auth |-> a, file |-> f, err |-> e] IN
    IF resp.kind = "neterr" THEN fail("NetatmoAuthError")
    ELSE IF resp.status = 400 THEN fail(Refresh400(resp))
    ELSE IF resp.status >= 400 THEN fail("NetatmoAuthError")
    ELSE IF resp.body = "notjson" THEN fail("NetatmoAuthError")
    ELSE IF resp.body = "nonobject" THEN fail("AttributeError")
    ELSE LET a2 == ApplyTokenData(a, resp, t)
             wr == WriteTokenFile(a2, f, w)
         IN  [auth |-> a2, file |-> wr.file, err |-> wr.err]

\* variant of NeedsRefresh: the boundary of the margin is excluded
NeedsRefresh_BoundaryExcluded(a, t) ==
    \/ Falsy(a.access_token)
    \/ /\ a.token_expires_at # NoTime
       /\ a.token_expires_at - t < RefreshMargin

\* variant of NeedsRefresh: an unknown expiry counts as expired
NeedsRefresh_UnsetExpires(a, t) ==
    \/ Falsy(a.access_token)
    \/ a.token_expires_at = NoTime
    \/ a.token_expires_at - t <= RefreshMargin

\* lines 154-159: the condition under which the headers property refreshes
NeedsRefresh(a, t) ==
    \/ Falsy(a.access_token)
    \/ /\ a.token_expires_at # NoTime
       /\ a.token_expires_at - t <= RefreshMargin

----------------------------------------------------------------------------
(* Raw topology: the devices of a getstationsdata response *)

\* Python None for number-valued fields (readings are scaled by 10)
NoNum == -999

\* a dashboard_data mapping, or its absence
Dash(items) == [present |-> TRUE, items |-> items]
NoDash == [present |-> FALSE, items |-> <<>>]

RawModule(id, ty, name, rf, vp, pct, dash) ==
    [_id |-> id, type |-> ty, module_name |-> name, rf_status |-> rf,
     battery_vp |-> vp, battery_percent |-> pct, dashboard_data |-> dash]

Place(alt, loc) ==
    [altitude |-> alt, location |-> loc,
     city |-> "Unknown", country |-> "Unknown", timezone |-> "Unknown"]

RawDevice(id, name, ty, place, wifi, co2, reach, dash, mods) ==
    [_id |-> id, station_name |-> name, type |-> ty, module_name |-> "Indoor",
     place |-> place, wifi_status |-> wifi, co2_calibrating |-> co2,
     reachable |-> reach, dashboard_data |-> dash, modules |-> mods]

\* an outdoor module with a humidity reading
ModOutdoor(hum) ==
    RawModule("M1", "NAModule1", "Outdoor", 60, 5000, 80,
              Dash(<< <<"Humidity", hum>> >>))

\* the base station listed among its own modules
ModMain ==
    RawModule("S1", "NAMain", "Indoor", NoNum, NoNum, NoNum, NoDash)

\* a station reporting every field the projection reads
DevFull(temp, trend, hum) ==
    RawDevice("S1", "Home", "NAMain", Place(300, <<75, 512>>), 50, 0, 1,
              Dash(<< <<"time_utc", 1700>>, <<"Temperature", temp>>,
                      <<"temp_trend", trend>> >>),
              <<ModMain, ModOutdoor(hum)>>)

\* a station whose place carries no altitude
DevNoAltitude ==
    RawDevice("S1", "Home", "NAMain", Place(NoNum, <<75, 512>>), 50, 0, 1,
              Dash(<< <<"Temperature", 215>> >>), <<ModOutdoor(550)>>)

\* a station that is present but reports no dashboard_data
DevSilent ==
    RawDevice("S2", "Cabin", "NAMain", Place(900, <<81, 470>>), 40, 0, 0,
              NoDash, <<ModOutdoor(610)>>)

\* a second module, of another kind
ModIndoor ==
    RawModule("M2", "NAModule4", "Bedroom", 70, 5200, 90,
              Dash(<< <<"CO2", 4000>> >>))

\* a device entry without "_id" that carries a module of a kept type
DevNoId ==
    RawDevice(None, "Ghost", "NAMain", Place(100, <<10, 20>>), 30, 0, 1,
              Dash(<< <<"Temperature", 180>> >>), <<ModIndoor>>)

\* a device entry without "_id" whose only module is of an excluded type
DevNoIdBare ==
    RawDevice(None, "Ghost", "NAMain", Place(100, <<10, 20>>), 30, 0, 1,
              Dash(<< <<"Temperature", 180>> >>), <<ModMain>>)

\* a second entry carrying the id of DevFull, with another module
DevTwin ==
    RawDevice("S1", "Home", "NAMain", Place(300, <<75, 512>>), 50, 0, 1,
              Dash(<< <<"Temperature", 220>> >>), <<ModIndoor>>)

\* a station with a reading no Gauge is declared for
DevUnknownSensor ==
    RawDevice("S3", "Lab", "NAMain", Place(300, <<75, 512>>), 50, 0, 1,
              Dash(<< <<"health_idx", 10>>, <<"Temperature", 230>> >>),
              <<ModOutdoor(580)>>)

\* a station whose location list has a single entry
DevShortLocation ==
    RawDevice("S1", "Home", "NAMain", Place(300, <<75>>), 50, 0, 1,
              Dash(<< <<"Temperature", 215>> >>), <<ModOutdoor(550)>>)

\* a module that reports a reading and neither radio nor battery status
ModScenario ==
    RawModule("M1", "NAModule1", Missing, NoNum, NoNum, NoNum,
              Dash(<< <<"Humidity", 550>> >>))

\* a station that reports an id, a location and two readings, with one module
DevScenario ==
    [RawDevice("S1", Missing, Missing, Place(NoNum, <<75, 512>>), NoNum, NoNum,
               NoNum, Dash(<< <<"Temperature", 215>>, <<"temp_trend", "up">> >>),
               <<ModScenario>>)
        EXCEPT !.module_name = Missing]

\* the device lists the stations endpoint may return
Topologies ==
    {<<>>,
     <<DevFull(215, "up", 550)>>,
     <<DevFull(190, "stable", 600)>>,
     <<DevSilent, DevFull(215, "up", 550)>>,
     <<DevNoAltitude>>,
     <<DevShortLocation>>,
     <<DevFull(215, "up", 550), DevNoId>>,
     <<DevNoIdBare, DevFull(215, "up", 550)>>,
     <<DevFull(215, "up", 550), DevTwin>>,
     <<DevFull(215, "rising", 550), DevSilent>>,
     <<DevUnknownSensor, DevSilent>>,
     <<DevScenario>>}

----------------------------------------------------------------------------
(* NetatmoWeatherStationAPI *)

\* a response of the stations endpoint
ListResp(k, st, b, code, hasBody, devs) ==
    [kind |-> k, status |-> st, body |-> b, error_code |-> code,
     has_body |-> hasBody, devices |-> devs]

\* error_code 0: the JSON object has no "error" key
ListResponses ==
    {ListResp("neterr", 0, "none", 0, FALSE, <<>>)}
    \cup {ListResp("http", st, b, 0, FALSE, <<>>) :
            st \in {200, 403, 429, 500}, b \in {"notjson", "nonobject"}}
    \cup {ListResp("http", st, "object", code, FALSE, <<>>) :
            st \in {200, 403, 429, 500}, code \in {0, 2, 13}}
    \cup {ListResp("http", 200, "object", 0, TRUE, devs) : devs \in Topologies}

\* _handle_response_errors: the exception raised, "none" when it returns
HandleResponseErrors(resp) ==
    IF resp.status = 429 THEN "NetatmoThrottlingError"
    ELSE IF resp.status = 403 THEN
        CASE resp.body = "notjson" -> "NetatmoAPIError"
          [] resp.body = "nonobject" -> "AttributeError"
          [] resp.body = "object" ->
                IF resp.error_code = 2 THEN "NetatmoAuthError" ELSE "NetatmoAPIError"
    ELSE IF resp.status >= 400 THEN "NetatmoAPIError"
    ELSE CASE resp.body = "notjson" -> "none"
           [] resp.body = "nonobject" -> "AttributeError"
           [] resp.body = "object" ->
                IF ~resp.has_body /\ resp.error_code # 0
                THEN "NetatmoAPIError" ELSE "none"

\* get_stations_data after the headers were obtained: stations_data and the
\* exception raised.  response.json() of requests raises
\* requests.exceptions.JSONDecodeError, a RequestException, which line 214 wraps.
GetStationsData(resp, old) ==
    LET fail(e) == [devices |-> old, err |-> e] IN
    IF resp.kind = "neterr" THEN fail("NetatmoAPIError")
    ELSE IF HandleResponseErrors(resp) # "none" THEN fail(HandleResponseErrors(resp))
    ELSE IF resp.body = "notjson" THEN fail("NetatmoAPIError")
    ELSE [devices |-> resp.devices, err |-> "none"]

\* a station entry of get_stations (lines 230-248)
Station(d) ==
    [id |-> d._id,
     station_name |-> IF d.station_name = Missing THEN "Unknown"
                      ELSE d.station_name,
     type |-> IF d.type = Missing THEN None ELSE d.type,
     module_name |-> IF d.module_name = Missing THEN "Unknown"
                     ELSE d.module_name,
     place |-> d.place,
     wifi_status |-> d.wifi_status, co2_calibrating |-> d.co2_calibrating,
     \* .get("reachable", False), and float(False) is 0.0
     reachable |-> IF d.reachable = NoNum THEN 0 ELSE d.reachable,
     dashboard_data |-> d.dashboard_data,
     modules |-> <<>>]

\* a module entry of get_stations (lines 258-272)
Module(m) ==
    [id |-> m._id, type |-> m.type,
     module_name |-> IF m.module_name = Missing THEN "Unknown"
                     ELSE m.module_name,
     rf_status |-> m.rf_status, battery_vp |-> m.battery_vp,
     battery_percent |-> m.battery_percent, dashboard_data |-> m.dashboard_data]

ExcludedModuleTypes == {"NAMain", "NAWifiStation"}

RECURSIVE KeptModules(_)
KeptModules(mods) ==
    IF mods = <<>> THEN <<>>
    ELSE IF Head(mods).type \in ExcludedModuleTypes
         THEN KeptModules(Tail(mods))
         ELSE <<Module(Head(mods))>> \o KeptModules(Tail(mods))

\* variant: an entry that exists keeps the modules it has collected
PutStation_KeepsModules(sts, st) ==
    IF \E i \in 1..Len(sts) : sts[i].id = st.id
    THEN [i \in 1..Len(sts) |->
            IF sts[i].id = st.id
            THEN [st EXCEPT !.modules = sts[i].modules] ELSE sts[i]]
    ELSE Append(sts, st)

\* stations[station_id] = {...}: a dict keeps the position of a key it has
PutStation(sts, st) ==
    IF \E i \in 1..Len(sts) : sts[i].id = st.id
    THEN [i \in 1..Len(sts) |-> IF sts[i].id = st.id THEN st ELSE sts[i]]
    ELSE Append(sts, st)

\* stations[station_id]["modules"].append(...) for each kept module
AppendModules(sts, id, mods) ==
    [i \in 1..Len(sts) |->
        IF sts[i].id = id
        THEN [sts[i] EXCEPT !.modules = sts[i].modules \o mods]
        ELSE sts[i]]

\* get_stations: the stations in dict order, and the exception raised
RECURSIVE GetStationsFrom(_, _)
GetStationsFrom(devs, sts) ==
    IF devs = <<>> THEN [stations |-> sts, err |-> "none"]
    ELSE LET d == Head(devs)
             sts1 == IF Falsy(d._id) THEN sts ELSE PutStation(sts, Station(d))
             kept == KeptModules(d.modules)
         IN  IF kept = <<>> THEN GetStationsFrom(Tail(devs), sts1)
             ELSE IF Falsy(d._id)
                  THEN \* stations[None]: no such key
                       [stations |-> sts1, err |-> "KeyError"]
                  ELSE GetStationsFrom(Tail(devs), AppendModules(sts1, d._id, kept))

GetStations(devs) == GetStationsFrom(devs, <<>>)

----------------------------------------------------------------------------
(* Projection onto the Gauges (client.py) *)

\* the Gauge objects among the module globals (client.py:173-206)
Gauges ==
    {"STATION_REACHABLE", "STATION_LONGITUDE", "STATION_LATITUDE",
     "STATION_ALTITUDE", "STATION_WIFI_STATUS", "STATION_CO2_CALIBRATING",
     "TEMPERATURE", "MIN_TEMP", "MAX_TEMP", "TEMP_TREND", "HUMIDITY", "CO2",
     "PRESSURE", "PRESSURE_TREND", "ABSOLUTEPRESSURE", "NOISE", "RF_STATUS",
     "BATTERY_VP", "BATTERY_PERCENT", "WINDANGLE", "WINDSTRENGTH",
     "MAX_WIND_ANGLE", "MAX_WIND_STR", "GUSTANGLE", "GUSTSTRENGTH", "RAIN",
     "SUM_RAIN_1", "SUM_RAIN_24"}

\* str.upper() on the keys and trend values that occur in the model
Upper(k) ==
    CASE k = "Temperature" -> "TEMPERATURE"
      [] k = "Humidity" -> "HUMIDITY"
      [] k = "CO2" -> "CO2"
      [] k = "Pressure" -> "PRESSURE"
      [] k = "AbsolutePressure" -> "ABSOLUTEPRESSURE"
      [] k = "Noise" -> "NOISE"
      [] k = "min_temp" -> "MIN_TEMP"
      [] k = "max_temp" -> "MAX_TEMP"
      [] k = "temp_trend" -> "TEMP_TREND"
      [] k = "pressure_trend" -> "PRESSURE_TREND"
      [] k = "Rain" -> "RAIN"
      [] k = "health_idx" -> "HEALTH_IDX"
      [] k = "altitude" -> "ALTITUDE"
      [] k = "longitude" -> "LONGITUDE"
      [] k = "latitude" -> "LATITUDE"
      [] k = "wifi_status" -> "WIFI_STATUS"
      [] k = "co2_calibrating" -> "CO2_CALIBRATING"
      [] k = "rf_status" -> "RF_STATUS"
      [] k = "battery_vp" -> "BATTERY_VP"
      [] k = "battery_percent" -> "BATTERY_PERCENT"
      [] k \in {"up", "Up", "UP"} -> "UP"
      [] k \in {"down", "Down", "DOWN"} -> "DOWN"
      [] k \in {"stable", "Stable", "STABLE"} -> "STABLE"
      [] k = "rising" -> "RISING"

\* class TrendState (client.py:28-31)
TrendState == [UP |-> 1, DOWN |-> -1, STABLE |-> 0]

\* the keys get_sensor_data drops, and the keys it translates
DateKeys == {"time_utc", "date_max_temp", "date_min_temp", "date_max_wind_str"}
TrendKeys == {"temp_trend", "pressure_trend"}

\* safe_list_get with the default None
safe_list_get(_input_list, _idx) ==
    IF _idx + 1 <= Len(_input_list) THEN _input_list[_idx + 1] ELSE NoNum

\* One Gauge write, G.labels(...).set(value): labels() creates the child
\* series, then set() converts the value with float(), which rejects None.
SetOp(g, labels, v) ==
    [series |-> <<g, labels>>, create |-> TRUE, value |-> v,
     raises |-> IF v = NoNum THEN "TypeError" ELSE "none"]

\* globals()[name] finds no such global: nothing is created
LookupFails ==
    [series |-> <<"", <<>>>>, create |-> FALSE, value |-> NoNum,
     raises |-> "KeyError"]

\* line 124-126: the child is created, then TrendState[...] is looked up
TrendOp(g, labels, v) ==
    IF Upper(v) \in DOMAIN TrendState
    THEN SetOp(g, labels, TrendState[Upper(v)])
    ELSE [series |-> <<g, labels>>, create |-> TRUE, value |-> NoNum,
          raises |-> "KeyError"]

\* get_sensor_data: the writes in the order of the mapping
RECURSIVE get_sensor_data(_, _, _, _)
get_sensor_data(items, _station_name, _module_name, _module_type) ==
    IF items = <<>> THEN <<>>
    ELSE LET _sensor == Head(items)[1]
             _value == Head(items)[2]
             labels == <<_station_name, _module_name, _module_type>>
             rest == get_sensor_data(Tail(items), _station_name, _module_name,
                                     _module_type)
         IN  IF _sensor \in DateKeys THEN rest
             ELSE IF _sensor \in TrendKeys
                  THEN <<TrendOp(Upper(_sensor), labels, _value)>> \o rest
             ELSE IF Upper(_sensor) \in Gauges
                  THEN <<SetOp(Upper(_sensor), labels, _value)>> \o rest
             ELSE <<LookupFails>> \o rest

\* lines 255-270: the writes of the modules of one station
RECURSIVE ModulesOps(_, _)
ModulesOps(mods, station_name) ==
    IF mods = <<>> THEN <<>>
    ELSE LET module == Head(mods)
             labels == <<station_name, module.module_name, module.type>>
             rest == ModulesOps(Tail(mods), station_name)
         IN  IF ~module.dashboard_data.present THEN rest
             ELSE <<SetOp("RF_STATUS", labels, module.rf_status),
                    SetOp("BATTERY_VP", labels, module.battery_vp),
                    SetOp("BATTERY_PERCENT", labels, module.battery_percent)>>
                  \o get_sensor_data(module.dashboard_data.items, station_name,
                                     module.module_name, module.type)
                  \o rest

\* lines 220-270: the writes of one station
StationOps(station) ==
    LET name == station.station_name
        type == station.type
        place == station.place
        geo == <<SetOp("STATION_ALTITUDE", <<name, type>>, place.altitude),
                 SetOp("STATION_LONGITUDE", <<name, type>>,
                       safe_list_get(place.location, 0)),
                 SetOp("STATION_LATITUDE", <<name, type>>,
                       safe_list_get(place.location, 1))>>
    IN  IF ~station.dashboard_data.present
        THEN \* line 241-242: continue with the next station
             geo
        ELSE geo
             \o <<SetOp("STATION_REACHABLE",
                        <<name, type, place.city, place.country, place.timezone>>,
                        station.reachable),
                  SetOp("STATION_WIFI_STATUS", <<name, type>>, station.wifi_status),
                  SetOp("STATION_CO2_CALIBRATING", <<name, type>>,
                        station.co2_calibrating)>>
             \o get_sensor_data(station.dashboard_data.items, name,
                                station.module_name, type)
             \o ModulesOps(station.modules, name)

RECURSIVE ProjectionOps(_)
ProjectionOps(sts) ==
    IF sts = <<>> THEN <<>>
    ELSE StationOps(Head(sts)) \o ProjectionOps(Tail(sts))

\* variant: the value is added to the one the child holds
GaugeSet_Adds(m, series, value) == [m EXCEPT ![series] = m[series] + value]

\* Gauge.set on a child that exists: the value replaces the one it holds
GaugeSet(m, series, value) == [m EXCEPT ![series] = value]

\* the writes are applied in order until one raises
RECURSIVE RunOps(_, _)
RunOps(m, ops) ==
    IF ops = <<>> THEN [metrics |-> m, err |-> "none"]
    ELSE LET op == Head(ops)
             m1 == IF op.create /\ op.series \notin DOMAIN m
                   THEN m @@ (op.series :> 0) ELSE m
         IN  IF op.raises # "none" THEN [metrics |-> m1, err |-> op.raises]
             ELSE RunOps(GaugeSet(m1, op.series, op.value), Tail(ops))

\* lines 217-270: get_stations and the projection loop
Project(m, devs) ==
    LET gs == GetStations(devs) IN
    IF gs.err # "none" THEN [metrics |-> m, err |-> gs.err]
    ELSE RunOps(m, ProjectionOps(gs.stations))

----------------------------------------------------------------------------
(* The poll loop of __main__ (client.py:210-284) *)

NoMetrics == [x \in {} |-> 0]

NoHeaders ==
    [called |-> FALSE, access_token |-> None, token_expires_at |-> NoTime,
     now |-> 0, refreshes |-> 0]

NoRefresh ==
    [called |-> FALSE, refresh_token |-> None,
     resp |-> TokenResp("neterr", 0, "none", None, None, Missing, NoTime),
     auth |-> NoAuth, file |-> FileAbsent, err |-> "none"]

NoList == ListResp("none", 0, "none", 0, FALSE, <<>>)

NoCycle == [err |-> "none", trace |-> <<>>, devices |-> <<>>,
            metrics |-> NoMetrics]

\* get_stations has not been called in this iteration
NoStations == [stations |-> <<>>, err |-> "none"]

\* the pyatmo-based variant before the first iteration of its loop
\* (src/netatmo-exporter/client.py:143-217)
PyatmoStart ==
    [pc |-> "top", now |-> 0, cycle |-> 0, err |-> "none",
     refresh_token |-> ConfiguredRefreshToken, failures |-> 0,
     tokens |-> 0, tokenAt |-> NoTime, gap |-> NoTime, retried |-> FALSE]

\* no signal has been delivered
NoSignal == [count |-> 0, sig |-> "none", term |-> FALSE, at |-> "none"]

Init ==
    /\ pc = "startup"
    /\ creds \in Credentials
    /\ signalled = NoSignal
    /\ now = 0
    /\ file \in InitFiles
    /\ auth = NoAuth
    /\ err = "none"
    /\ devices = <<>>
    /\ stations = NoStations
    /\ metrics = NoMetrics
    /\ cycle = 0
    /\ trace = <<>>
    /\ lastHeaders = NoHeaders
    /\ lastRefresh = NoRefresh
    /\ lastList = NoList
    /\ prevCycle = NoCycle
    /\ fileReads = 0
    /\ pyatmo = PyatmoStart

\* lines 168-170 and 208: without the three credentials the process logs
\* and leaves with exit(1); otherwise the metrics server starts and the
\* loop is entered
Startup ==
    /\ pc = "startup"
    /\ IF CredentialsMissing(creds)
       THEN pc' = "exited" /\ err' = "SystemExit"
       ELSE pc' = "top" /\ err' = err
    /\ UNCHANGED <<creds, signalled, now, file, auth, devices, stations,
                   metrics, cycle, trace, lastHeaders, lastRefresh, lastList,
                   prevCycle, fileReads, pyatmo>>

\* line 210-214: `while running`, get_authorization and the new API object.
\* An exception of the constructor is raised outside the try statement.
\* `running` is True whenever the test is made: only shutdown() assigns it,
\* and the body of shutdown() is never entered (see Signal).
StartCycle ==
    /\ pc = "top"
    /\ cycle < MaxCycles
    /\ LET r == NetatmoAuthInit(creds.refresh_token, file) IN
        /\ auth' = r.auth
        /\ err' = r.err
        /\ pc' = IF r.err = "none" THEN "headers" ELSE "exited"
    /\ cycle' = cycle + 1
    /\ devices' = <<>>
    /\ stations' = NoStations
    /\ trace' = <<>>
    /\ lastHeaders' = NoHeaders
    /\ lastRefresh' = NoRefresh
    /\ lastList' = NoList
    /\ prevCycle' = [err |-> err, trace |-> trace, devices |-> devices,
                     metrics |-> metrics]
    \* netatmo_api.py:78: the constructor opens the token file
    /\ fileReads' = fileReads + 1
    /\ UNCHANGED <<creds, signalled, now, file, metrics, pyatmo>>

\* line 202: self.auth.headers, evaluated for the stations request
Headers ==
    /\ pc = "headers"
    /\ IF NeedsRefresh(auth, now)
       THEN \E resp \in TokenResponses, w \in WriteOutcomes :
              LET r == Refresh(auth, file, resp, w, now) IN
                /\ auth' = r.auth
                /\ file' = r.file
                /\ err' = r.err
                /\ pc' = IF r.err = "none" THEN "list" ELSE "finally"
                /\ trace' = Append(trace, "token")
                /\ lastRefresh' =
                       [called |-> TRUE, refresh_token |-> auth.refresh_token,
                        resp |-> resp, auth |-> auth, file |-> file,
                        err |-> r.err]
                /\ lastHeaders' =
                       [called |-> TRUE, access_token |-> auth.access_token,
                        token_expires_at |-> auth.token_expires_at,
                        now |-> now, refreshes |-> 1]
       ELSE /\ pc' = "list"
            /\ lastHeaders' =
                   [called |-> TRUE, access_token |-> auth.access_token,
                    token_expires_at |-> auth.token_expires_at,
                    now |-> now, refreshes |-> 0]
            /\ UNCHANGED <<auth, file, err, trace, lastRefresh>>
    /\ UNCHANGED <<creds, signalled, now, devices, stations, metrics, cycle,
                   lastList, prevCycle, fileReads, pyatmo>>

\* variant of ListDevices: the projection follows a failed request too
ListDevices_ProjectsAnyway ==
    /\ pc = "list"
    /\ \E resp \in ListResponses :
         LET r == GetStationsData(resp, devices) IN
           /\ devices' = r.devices
           /\ err' = r.err
           /\ pc' = "project"
           /\ lastList' = resp
    /\ trace' = Append(trace, "list")
    /\ UNCHANGED <<creds, signalled, now, file, auth, stations, metrics, cycle,
                   lastHeaders, lastRefresh, prevCycle, fileReads, pyatmo>>

\* lines 200-212: the stations request and its classification
ListDevices ==
    /\ pc = "list"
    /\ \E resp \in ListResponses :
         LET r == GetStationsData(resp, devices) IN
           /\ devices' = r.devices
           /\ err' = r.err
           /\ pc' = IF r.err = "none" THEN "project" ELSE "finally"
           /\ lastList' = resp
    /\ trace' = Append(trace, "list")
    /\ UNCHANGED <<creds, signalled, now, file, auth, stations, metrics, cycle,
                   lastHeaders, lastRefresh, prevCycle, fileReads, pyatmo>>

\* lines 217-270
Projecting ==
    /\ pc = "project"
    /\ stations' = GetStations(devices)
    /\ LET r == Project(metrics, devices) IN
        /\ metrics' = r.metrics
        /\ err' = r.err
    /\ pc' = "finally"
    /\ trace' = Append(trace, "project")
    /\ UNCHANGED <<creds, signalled, now, file, auth, devices, cycle,
                   lastHeaders, lastRefresh, lastList, prevCycle, fileReads, pyatmo>>

\* variant of Sleep: the sleep is skipped after an exception
Sleep_NotAfterFailure ==
    /\ pc = "finally"
    /\ now' = IF err = "none" THEN now + interval ELSE now
    /\ trace' = Append(trace, "sleep")
    /\ IF err \in CaughtByLoop \cup {"none"}
       THEN pc' = "top"
       ELSE pc' = "exited"
    /\ UNCHANGED <<creds, signalled, file, auth, err, devices, stations,
                   metrics, cycle, lastHeaders, lastRefresh, lastList,
                   prevCycle, fileReads, pyatmo>>

\* lines 271-284: the except clauses log; finally sleeps; an exception no
\* clause names then leaves the loop and ends the process
Sleep ==
    /\ pc = "finally"
    /\ now' = now + interval
    /\ trace' = Append(trace, "sleep")
    /\ IF err \in CaughtByLoop \cup {"none"}
       THEN pc' = "top"
       ELSE pc' = "exited"
    /\ UNCHANGED <<creds, signalled, file, auth, err, devices, stations,
                   metrics, cycle, lastHeaders, lastRefresh, lastList,
                   prevCycle, fileReads, pyatmo>>

Next ==
    \/ Startup
    \/ StartCycle
    \/ Headers
    \/ ListDevices
    \/ Projecting
    \/ Sleep

Spec == Init /\ [][Next]_vars

\* lines 139-143: the signals for which shutdown is registered when the
\* environment variable TERM is set
Signals == {"SIGINT", "SIGTERM"}

\* What the delivery of a signal does to the main thread.  With TERM set the
\* interpreter calls shutdown(signum, frame), and shutdown (line 95) takes
\* one positional argument: the call raises TypeError before the body runs,
\* so `running` is not assigned.  Without TERM the default dispositions
\* apply: SIGINT raises KeyboardInterrupt, SIGTERM kills the process.
SignalOutcome(sig, term) ==
    IF term THEN "TypeError"
    ELSE IF sig = "SIGINT" THEN "KeyboardInterrupt"
    ELSE "SIGTERM"

\* A signal is delivered.  An exception raised inside the try statement
\* (lines 212-270) passes the except clauses, none of which names it, and
\* enters `finally: sleep(interval)`; raised during that sleep, at start-up
\* or between two iterations it ends the process at once.  TERM is read once
\* at start-up and matters to nothing but the delivery of a signal: its
\* value is fixed at the first delivery.
Signal ==
    /\ pc # "exited"
    /\ signalled.count < MaxSignals
    /\ \E sig \in Signals,
          term \in (IF signalled.count = 0 THEN BOOLEAN ELSE {signalled.term}) :
         LET out == SignalOutcome(sig, term) IN
           /\ signalled' = [count |-> signalled.count + 1, sig |-> sig,
                            term |-> term, at |-> pc]
           /\ err' = out
           /\ pc' = IF out # "SIGTERM" /\ pc \in {"headers", "list", "project"}
                    THEN "finally"
                    ELSE "exited"
    /\ UNCHANGED <<creds, now, file, auth, devices, stations, metrics, cycle,
                   trace, lastHeaders, lastRefresh, lastList, prevCycle,
                   fileReads, pyatmo>>

NextSignals ==
    \/ Next
    \/ Signal

SpecSignals == Init /\ [][NextSignals]_vars

\* the exit status of the process: an uncaught exception or exit(1) ends it
\* with 1, an uncaught KeyboardInterrupt with 130, the kill by SIGTERM
\* with 143
ExitCode ==
    IF pc = "exited" /\ err # "none"
    THEN CASE err = "KeyboardInterrupt" -> 130
           [] err = "SIGTERM" -> 143
           [] OTHER -> 1
    ELSE 0

TypeOK ==
    /\ pc \in {"startup", "top", "headers", "list", "project", "finally",
              "exited"}
    /\ now \in 0..(MaxCycles * interval)
    /\ cycle \in 0..MaxCycles

----------------------------------------------------------------------------
(* Properties *)

Count(seq, e) == Cardinality({i \in 1..Len(seq) : seq[i] = e})

\* the token file the constructor of the current iteration read
FileAtConstruction == IF lastRefresh.called THEN lastRefresh.file ELSE file

\* the spec's condition for a refresh, on the state headers was evaluated in:
\* no usable access_token (None or empty), or an expiry that is known and
\* not more than 60 seconds ahead
SpecRefreshCondition ==
    \/ lastHeaders.access_token \in {None, ""}
    \/ /\ lastHeaders.token_expires_at # NoTime
       /\ lastHeaders.now >= lastHeaders.token_expires_at - 60

\* C1 (as claimed): when a refresh of a poll cycle fails with
\* NetatmoAuthErrorTokenExpired, the process goes to FATAL without passing
\* through the sleep: it exits with a non-zero code and sends no token or
\* stations request after the failure.
C1_TokenExpiredExitsWithoutSleep ==
    err = "NetatmoAuthErrorTokenExpired" =>
        /\ Count(trace, "sleep") = 0
        /\ Count(trace, "list") = 0
        /\ Count(trace, "token") = 1
        /\ pc = "exited" => ExitCode # 0

\* C2: an evaluation of NetatmoAuth.headers sends a token request if and only
\* if access_token is absent, or expires_at is present and
\* now >= expires_at - 60 (boundary included).
C2_HeadersRefreshIff ==
    lastHeaders.called =>
        (Count(trace, "token") >= 1 <=> SpecRefreshCondition)

\* C2 witness: headers evaluated exactly 60 seconds before the expiry of a
\* present access_token, and the token request was sent
C2_Witness ==
    /\ lastHeaders.called
    /\ lastHeaders.access_token = "A1"
    /\ lastHeaders.token_expires_at = lastHeaders.now + 60
    /\ Count(trace, "token") = 1

\* C3 (as claimed): headers triggers exactly one refresh call when expires_at
\* is unset or within 60s of now, and zero refresh calls otherwise; with an
\* access_token present and expires_at unset, one refresh call is made.
C3_AsClaimed ==
    lastHeaders.called =>
        lastHeaders.refreshes =
            IF \/ lastHeaders.token_expires_at = NoTime
               \/ lastHeaders.now >= lastHeaders.token_expires_at - 60
            THEN 1 ELSE 0

\* C3 (amended): headers triggers exactly one refresh call when access_token
\* is absent or expires_at is set and within 60s of now, and zero refresh
\* calls otherwise; with an access_token present and expires_at unset, no
\* refresh call is made.
C3_RefreshCount ==
    lastHeaders.called =>
        /\ lastHeaders.refreshes = IF SpecRefreshCondition THEN 1 ELSE 0
        /\ lastHeaders.refreshes = 1 <=> lastRefresh.called
        /\ (lastHeaders.access_token = "A1" /\ lastHeaders.token_expires_at = NoTime)
              => lastHeaders.refreshes = 0

\* C3 witness: headers evaluated with an access_token and no expires_at, and
\* no refresh call was made
C3_Witness ==
    /\ lastHeaders.called
    /\ lastHeaders.access_token = "A1"
    /\ lastHeaders.token_expires_at = NoTime
    /\ lastHeaders.refreshes = 0
    /\ ~lastRefresh.called

\* C4 (as claimed): a refresh response with status 400 raises
\* NetatmoAuthErrorTokenExpired when its JSON body has error == invalid_grant,
\* and NetatmoAuthError for any other body.
C4_Refresh400Classification ==
    (lastRefresh.called /\ lastRefresh.resp.kind = "http"
        /\ lastRefresh.resp.status = 400) =>
        lastRefresh.err =
            IF lastRefresh.resp.body = "object"
               /\ lastRefresh.resp.error = "invalid_grant"
            THEN "NetatmoAuthErrorTokenExpired"
            ELSE "NetatmoAuthError"

\* a refresh that failed for a reason other than invalid_grant: a network
\* failure, or a status that is not 2xx
RefreshFailedTransiently ==
    /\ lastRefresh.called
    /\ \/ lastRefresh.resp.kind = "neterr"
       \/ /\ lastRefresh.resp.status >= 300
          /\ ~(lastRefresh.resp.status = 400 /\ lastRefresh.resp.body = "object"
               /\ lastRefresh.resp.error = "invalid_grant")

\* C5 (as claimed): when refresh() fails for any reason other than
\* invalid_grant it raises NetatmoAuthError, and the process does not exit.
C5_TransientRefreshFailure ==
    RefreshFailedTransiently =>
        /\ lastRefresh.err = "NetatmoAuthError"
        /\ pc # "exited"

\* C6: whenever refresh() has returned normally, the token file holds exactly
\* the in-memory access_token, refresh_token and expires_at, and the
\* refresh_token is the one of the response when the response carried one.
C6_FileHoldsMemoryAfterRefresh ==
    (lastRefresh.called /\ lastRefresh.err = "none") =>
        /\ file = FileObject(auth.access_token, auth.refresh_token,
                             auth.token_expires_at)
        /\ lastRefresh.resp.refresh_token # Missing =>
              /\ auth.refresh_token = lastRefresh.resp.refresh_token
              /\ file.refresh_token = lastRefresh.resp.refresh_token
        /\ lastRefresh.resp.refresh_token = Missing =>
              file.refresh_token = lastRefresh.refresh_token

\* C6 witness: refresh() returned after the server rotated the refresh_token
C6_Witness ==
    /\ lastRefresh.called
    /\ lastRefresh.err = "none"
    /\ lastRefresh.refresh_token = "R0"
    /\ lastRefresh.resp.refresh_token = "R1"
    /\ file.kind = "object"
    /\ file.refresh_token = "R1"

\* C7 (as claimed): whenever refresh() raises, the in-memory access_token,
\* refresh_token and expires_at and the token file are as before the call.
C7_FailedRefreshChangesNothing ==
    (lastRefresh.called /\ lastRefresh.err # "none") =>
        /\ auth = lastRefresh.auth
        /\ file = lastRefresh.file

\* the token file is absent, unparsable, or an object without the
\* access_token and expires_at keys
EmptyCredentials(f) ==
    \/ f.kind \in {"absent", "corrupt"}
    \/ f.kind = "object" /\ f.access_token = None /\ f.expires_at = NoTime

PrevFetchRejectedToken ==
    /\ prevCycle.err = "NetatmoAuthError"
    /\ Count(prevCycle.trace, "list") = 1

\* C9 (as claimed): after the stations call returned 403 with error.code == 2
\* the next headers call performs a refresh, even if expires_at is more than
\* 60 seconds ahead.
C9_RejectedTokenForcesRefresh ==
    (PrevFetchRejectedToken /\ lastHeaders.called) => lastHeaders.refreshes = 1

\* the fetch stage failed in one of the ways the claim lists
FetchFailed ==
    /\ lastList.kind # "none"
    /\ \/ lastList.kind = "neterr"
       \/ lastList.status >= 400
       \/ lastList.status = 200 /\ lastList.body = "notjson"
       \/ /\ lastList.status = 200 /\ lastList.body = "object"
          /\ ~lastList.has_body /\ lastList.error_code # 0

\* C10 (as claimed): every failure of the fetch stage is caught by the loop:
\* nothing is projected in that cycle, the loop sleeps interval seconds and
\* the process does not exit.
C10_FetchFailureIsCaught ==
    FetchFailed =>
        /\ err \in CaughtByLoop
        /\ Count(trace, "project") = 0
        /\ pc # "exited"

\* C11 (as claimed): when the stations endpoint answers with a success
\* status and a body that is not valid JSON, get_stations_data fails with
\* JSONDecodeError (the loop's JSON-decode branch), not with NetatmoAPIError.
C11_MalformedBodyIsJSONDecodeError ==
    (lastList.kind = "http" /\ lastList.status = 200
        /\ lastList.body = "notjson") => err = "JSONDecodeError"

\* the distinct non-empty ids of a raw device list
DeviceIds(devs) == {devs[i]._id : i \in 1..Len(devs)} \ {None, ""}

\* get_stations has been called in the current iteration
GetStationsCalled == Count(trace, "project") = 1

\* C12 (as claimed): get_stations never raises and returns exactly one
\* Station entry per distinct non-empty device id; a device without an id is
\* skipped, also when it carries modules of non-excluded types.
C12_GetStationsNeverRaises ==
    GetStationsCalled =>
        /\ stations.err = "none"
        /\ {stations.stations[i].id : i \in 1..Len(stations.stations)}
               = DeviceIds(devices)
        /\ Len(stations.stations) = Cardinality(DeviceIds(devices))

\* the raw modules of a list whose type is not excluded, in input order
RawKept(mods) == SelectSeq(mods, LAMBDA m : m.type \notin ExcludedModuleTypes)

\* the raw kept modules of every device carrying the id, in input order
RECURSIVE RawKeptUnder(_, _)
RawKeptUnder(devs, id) ==
    IF devs = <<>> THEN <<>>
    ELSE (IF Head(devs)._id = id THEN RawKept(Head(devs).modules) ELSE <<>>)
         \o RawKeptUnder(Tail(devs), id)

\* the last device of the list that carries the id
LastDeviceWith(devs, id) ==
    devs[CHOOSE i \in 1..Len(devs) :
            /\ devs[i]._id = id
            /\ \A j \in (i + 1)..Len(devs) : devs[j]._id # id]

\* the module entries get_stations builds from raw modules
AsModules(mods) == [i \in 1..Len(mods) |-> Module(mods[i])]

\* get_stations returned a result in the current iteration
GetStationsReturned == GetStationsCalled /\ stations.err = "none"

NoExcludedModule ==
    \A i \in 1..Len(stations.stations) :
        \A k \in 1..Len(stations.stations[i].modules) :
            stations.stations[i].modules[k].type \notin ExcludedModuleTypes

\* C13 (as claimed): in the result of get_stations no module list contains
\* a module of type NAMain or NAWifiStation, and every raw module of any
\* other type appears exactly once, in input order, under the station of the
\* device that contained it.
C13_AsClaimed ==
    GetStationsReturned =>
        /\ NoExcludedModule
        /\ \A i \in 1..Len(stations.stations) :
              stations.stations[i].modules
                  = AsModules(RawKeptUnder(devices, stations.stations[i].id))

\* C13 (amended): in the result of get_stations no module list contains a
\* module of type NAMain or NAWifiStation, and the module list of a station
\* is the raw modules of any other type, each once and in input order, of
\* the last device that carries the station's id.
C13_ModulesOfLastDevice ==
    GetStationsReturned =>
        /\ NoExcludedModule
        /\ \A i \in 1..Len(stations.stations) :
              stations.stations[i].modules
                  = AsModules(RawKept(
                        LastDeviceWith(devices, stations.stations[i].id).modules))

\* C13 witness: get_stations returned for a list in which two devices carry
\* one id, the first with an excluded and a kept module
C13_Witness ==
    /\ GetStationsReturned
    /\ \E i, j \in 1..Len(devices) :
          /\ i < j
          /\ devices[i]._id = devices[j]._id
          /\ \E k \in 1..Len(devices[i].modules) :
                devices[i].modules[k].type \in ExcludedModuleTypes
          /\ RawKept(devices[i].modules) # <<>>
          /\ RawKept(devices[j].modules) # <<>>

\* the sensor series a dashboard_data mapping is projected to under the
\* labels (station, module, type): one per key that is not a date key
SensorSeries(dash, station_name, module_name, type) ==
    {<<Upper(dash.items[i][1]), <<station_name, module_name, type>>>> :
        i \in {k \in 1..Len(dash.items) : dash.items[k][1] \notin DateKeys}}

\* the projection of the current iteration ran to its end
ProjectionCompleted == GetStationsReturned /\ err = "none"

\* C14 (as claimed): for a station without dashboard_data the projection
\* writes no sensor series of the station and still projects every module
\* of that station that has dashboard_data.
C14_SilentStationModulesProjected ==
    ProjectionCompleted =>
        \A i \in 1..Len(stations.stations) :
            LET s == stations.stations[i] IN
            ~s.dashboard_data.present =>
                \A k \in 1..Len(s.modules) :
                    s.modules[k].dashboard_data.present =>
                        SensorSeries(s.modules[k].dashboard_data, s.station_name,
                                     s.modules[k].module_name, s.modules[k].type)
                            \subseteq DOMAIN metrics

\* a dashboard_data mapping holds a trend reading TrendState has no member for
UnknownTrendIn(dash) ==
    \E i \in 1..Len(dash.items) :
        /\ dash.items[i][1] \in TrendKeys
        /\ Upper(dash.items[i][2]) \notin DOMAIN TrendState

\* a dashboard_data mapping holds a key no Gauge is declared for
UnknownSensorIn(dash) ==
    \E i \in 1..Len(dash.items) :
        /\ dash.items[i][1] \notin DateKeys
        /\ Upper(dash.items[i][1]) \notin Gauges

\* some station of the current result satisfies P on its dashboard_data
SomeStationDash(P(_)) ==
    \E i \in 1..Len(stations.stations) :
        /\ stations.stations[i].dashboard_data.present
        /\ P(stations.stations[i].dashboard_data)

\* the altitude of every station of the result has a series, and so has
\* each reading of every module under a station that reports dashboard_data
RestIsProjected ==
    \A i \in 1..Len(stations.stations) :
        LET s == stations.stations[i] IN
        /\ <<"STATION_ALTITUDE", <<s.station_name, s.type>>>> \in DOMAIN metrics
        /\ s.dashboard_data.present =>
              \A k \in 1..Len(s.modules) :
                  s.modules[k].dashboard_data.present =>
                      SensorSeries(s.modules[k].dashboard_data, s.station_name,
                                   s.modules[k].module_name, s.modules[k].type)
                          \subseteq DOMAIN metrics

\* C15 (as claimed): a trend value outside up/down/stable fails for that
\* reading only: every other reading, later module and later station of the
\* cycle is still projected, and the process keeps running.
C15_UnknownTrendIsLocal ==
    (GetStationsReturned /\ SomeStationDash(UnknownTrendIn)) =>
        /\ RestIsProjected
        /\ pc # "exited"

\* C16 (as claimed): a dashboard_data key no metric is declared for is
\* skipped: the remaining readings, modules and stations are still
\* projected and the process does not exit.
C16_UnknownSensorIsSkipped ==
    (GetStationsReturned /\ SomeStationDash(UnknownSensorIn)) =>
        /\ RestIsProjected
        /\ pc # "exited"

\* the three geographic series of a station with the values the place gives
\* them (NoNum: the place does not give the value)
GeoValues(s) ==
    << <<"STATION_ALTITUDE", s.place.altitude>>,
       <<"STATION_LONGITUDE",
         IF Len(s.place.location) >= 1 THEN s.place.location[1] ELSE NoNum>>,
       <<"STATION_LATITUDE",
         IF Len(s.place.location) >= 2 THEN s.place.location[2] ELSE NoNum>> >>

IncompletePlace(s) == \E g \in 1..3 : GeoValues(s)[g][2] = NoNum

\* C17 (as claimed): when a station's place lacks altitude, or its location
\* has fewer than two entries, the missing series is not written (nor
\* written as zero), the present ones are written, and the projection
\* continues without error.  The absence of a series is stated for the first
\* cycle, in which no earlier cycle can have created it.
C17_MissingGeoIsSkipped ==
    GetStationsReturned =>
        \A i \in 1..Len(stations.stations) :
            LET s == stations.stations[i]
                labels == <<s.station_name, s.type>>
            IN  IncompletePlace(s) =>
                  /\ err = "none"
                  /\ \A g \in 1..3 :
                        LET series == <<GeoValues(s)[g][1], labels>>
                            value == GeoValues(s)[g][2]
                        IN  IF value = NoNum
                            THEN cycle = 1 => series \notin DOMAIN metrics
                            ELSE /\ series \in DOMAIN metrics
                                 /\ metrics[series] = value

\* C20: when client_id, client_secret or refresh_token is missing after the
\* config file and the environment have been read, the process exits with a
\* non-zero code before the poll loop: no iteration starts, no token request
\* and no stations request is sent, and no metric is written.
C20_MissingCredentialsExitBeforeLoop ==
    (\E k \in {"client_id", "client_secret", "refresh_token"} :
        creds[k] = None) =>
        /\ pc \in {"startup", "exited"}
        /\ pc = "exited" => ExitCode # 0
        /\ cycle = 0
        /\ trace = <<>>
        /\ ~lastRefresh.called
        /\ lastList = NoList
        /\ metrics = NoMetrics

\* C20 witness: the process has exited at start-up with client_id and
\* client_secret supplied and refresh_token missing
C20_Witness ==
    /\ pc = "exited"
    /\ err = "SystemExit"
    /\ creds.client_id # None
    /\ creds.client_secret # None
    /\ creds.refresh_token = None

\* C18 (as claimed): a SIGINT or SIGTERM delivered during the sleep that
\* ends an iteration cuts the wait short and the process shuts down in
\* order: it exits with code 0.
C18_SignalInSleepExitsZero ==
    (signalled.count > 0 /\ signalled.at = "finally") =>
        /\ pc = "exited"
        /\ ExitCode = 0

\* C19 (as claimed): the delivery of a shutdown signal, in any state of the
\* loop, lets the current iteration finish (the step changes neither the
\* position of the main thread nor the exception in flight), and no new
\* iteration starts after it.
C19_SignalLetsIterationFinish ==
    [][/\ signalled'.count > signalled.count => (pc' = pc /\ err' = err)
       /\ signalled.count > 0 => cycle' = cycle]_vars

\* the current iteration and the one before it both ran the projection, on
\* the same device list
ProjectedTwiceInARow ==
    /\ Count(trace, "project") = 1
    /\ Count(prevCycle.trace, "project") = 1
    /\ prevCycle.devices = devices

\* C21: projecting the same topology twice in a row leaves every series
\* with the value it had after the first projection and creates no series
\* the first projection did not create.
C21_ProjectionIdempotent ==
    ProjectedTwiceInARow =>
        /\ DOMAIN metrics = DOMAIN prevCycle.metrics
        /\ \A s \in DOMAIN metrics : metrics[s] = prevCycle.metrics[s]

\* C21 witness: a station with a temperature of 21.5 and a module were
\* projected in two iterations in a row
C21_Witness ==
    /\ ProjectedTwiceInARow
    /\ devices = <<DevFull(215, "up", 550)>>
    /\ metrics[<<"TEMPERATURE", <<"Home", "Indoor", "NAMain">>>>] = 215
    /\ metrics[<<"HUMIDITY", <<"Home", "Outdoor", "NAModule1">>>>] = 550

\* the numeric readings of a dashboard_data mapping under the labels
\* (station, module, type): pairs of a series and the value reported
Readings(dash, station_name, module_name, type) ==
    {<<<<Upper(dash.items[i][1]), <<station_name, module_name, type>>>>,
       dash.items[i][2]>> :
        i \in {k \in 1..Len(dash.items) :
                 /\ dash.items[k][1] \notin DateKeys \cup TrendKeys
                 /\ Upper(dash.items[k][1]) \in Gauges}}

\* the numeric readings a poll reports: those of every station and those of
\* every module
PollReadings(sts) ==
    UNION {Readings(sts[i].dashboard_data, sts[i].station_name,
                    sts[i].module_name, sts[i].type)
           \cup UNION {Readings(sts[i].modules[k].dashboard_data,
                                sts[i].station_name,
                                sts[i].modules[k].module_name,
                                sts[i].modules[k].type) :
                       k \in 1..Len(sts[i].modules)} :
           i \in 1..Len(sts)}

\* the series the projection of a poll addresses
RECURSIVE SeriesOf(_)
SeriesOf(ops) ==
    IF ops = <<>> THEN {} ELSE {Head(ops).series} \cup SeriesOf(Tail(ops))

\* no series is removed, and only the projection changes a value
SeriesAreKept ==
    /\ DOMAIN metrics \subseteq DOMAIN metrics'
    /\ pc # "project" => metrics' = metrics

\* a series the poll does not address keeps the value of its last write
MissingKeepLastValue ==
    pc = "project" =>
        \A s \in DOMAIN metrics \ SeriesOf(ProjectionOps(stations'.stations)) :
            metrics'[s] = metrics[s]

\* a series written before whose reading the poll reports holds that value
PresentHoldPollValue ==
    pc = "project" =>
        \A r \in PollReadings(stations'.stations) :
            r[1] \in DOMAIN metrics => metrics'[r[1]] = r[2]

\* C22 (as claimed): a series, once written, is never removed or reset:
\* over any sequence of polls a series whose reading is missing from a later
\* poll keeps the value of its last write, and a series whose reading a
\* later poll reports holds that poll's value.
C22_SeriesLastValueWins ==
    [][SeriesAreKept /\ MissingKeepLastValue /\ PresentHoldPollValue]_vars

\* some series of the Gauge holds the value
GaugeHolds(g, v) == \E s \in DOMAIN metrics : s[1] = g /\ metrics[s] = v

\* C23 (as claimed): projecting the topology of one station (id S1,
\* location [7.5, 51.2] and no other place or status field, Temperature 21.5,
\* temp_trend up) with one module (id M1, NAModule1, Humidity 55, no battery
\* or rf field) completes without error and yields longitude 7.5, latitude
\* 51.2, temperature 21.5, temperature trend 1 and humidity 55.
C23_ScenarioValues ==
    (GetStationsCalled /\ devices = <<DevScenario>>) =>
        /\ err = "none"
        /\ GaugeHolds("STATION_LONGITUDE", 75)
        /\ GaugeHolds("STATION_LATITUDE", 512)
        /\ GaugeHolds("TEMPERATURE", 215)
        /\ GaugeHolds("TEMP_TREND", 1)
        /\ GaugeHolds("HUMIDITY", 550)

\* C24 (as claimed): the token file is replaced atomically on save: whatever
\* happens inside refresh(), a step leaves the file as it was or leaves it
\* holding the complete new credentials; it is never empty or truncated.
C24_TokenFileReplacedAtomically ==
    [][\/ file' = file
       \/ file' = FileObject(auth'.access_token, auth'.refresh_token,
                             auth'.token_expires_at)]_vars

\* C25 (as claimed): the token file is read once, at process start-up, and
\* never again.
C25_AsClaimed == fileReads <= 1

\* C25 (amended): the token file is read at the start of every poll cycle,
\* and the credentials a cycle starts with are the ones the file holds then:
\* its three fields when it holds a JSON object, otherwise no access_token,
\* no expiry and the configured refresh_token.
C25_TokenFileReadEveryCycle ==
    /\ fileReads = cycle
    /\ pc = "headers" =>
          auth = IF file.kind = "object"
                 THEN Auth(file.access_token, file.refresh_token, file.expires_at)
                 ELSE Auth(None, creds.refresh_token, NoTime)

\* C25 witness: the second cycle starts with the access_token the first
\* cycle obtained and wrote to the file, which has been read twice
C25_Witness ==
    /\ cycle = 2
    /\ pc = "headers"
    /\ fileReads = 2
    /\ prevCycle.trace # <<>>
    /\ prevCycle.trace[1] = "token"
    /\ file.kind = "object"
    /\ auth.access_token = "A2"

\* C26: every poll cycle, completed or failed with an error the loop
\* catches, is followed by exactly one sleep of interval seconds before the
\* next cycle, whatever the number of failures in a row: the k-th cycle runs
\* at time (k - 1) * interval, and at most one stations request is sent per
\* cycle, so two stations requests are a full interval apart.
C26_OneIntervalSleepPerCycle ==
    /\ Count(trace, "sleep") <= 1
    /\ Count(trace, "list") <= 1
    /\ pc \in {"headers", "list", "project", "finally"} =>
          /\ now = (cycle - 1) * interval
          /\ Count(trace, "sleep") = 0
    /\ (pc = "top" /\ cycle >= 1) =>
          /\ now = cycle * interval
          /\ Count(trace, "sleep") = 1
          /\ trace[Len(trace)] = "sleep"
    /\ cycle >= 2 => Count(prevCycle.trace, "sleep") = 1

\* C26 witness: the second cycle sends its stations request one interval
\* after the first cycle, whose stations request was throttled
C26_Witness ==
    /\ cycle = 2
    /\ prevCycle.err = "NetatmoThrottlingError"
    /\ Count(prevCycle.trace, "list") = 1
    /\ Count(trace, "list") = 1
    /\ now = interval

\* the events of one iteration in the order of the code: the token request
\* of headers, the stations request, the projection, the sleep
CycleOrder == <<"token", "list", "project", "sleep">>

\* the position of an event in CycleOrder
Rank(e) == CHOOSE i \in 1..Len(CycleOrder) : CycleOrder[i] = e

\* C27: within one cycle the events occur in the order authenticate, fetch,
\* project, sleep, each at most once (so at most one token request and one
\* stations request per cycle, one after the other), and the projection runs
\* only after the stations request of the same cycle succeeded.
C27_CycleIsSequential ==
    /\ \A i \in 1..Len(trace) : trace[i] \in {"token", "list", "project", "sleep"}
    /\ \A i, j \in 1..Len(trace) : i < j => Rank(trace[i]) < Rank(trace[j])
    /\ Count(trace, "project") = 1 =>
          /\ Count(trace, "list") = 1
          /\ lastList.kind = "http"
          /\ lastList.status = 200
          /\ lastList.body = "object"
          /\ devices = lastList.devices

\* C27 witness: an iteration made of a token request, a stations request,
\* a projection and a sleep
C27_Witness == trace = CycleOrder

\* C28 (as claimed): after a successful refresh whose response carries
\* expires_in = n, for every integer n >= 0, n = 0 included, expires_at is
\* the time of the refresh plus n.
C28_ExpiresAtIsNowPlusExpiresIn ==
    (/\ pc = "list"
     /\ lastRefresh.called
     /\ lastRefresh.err = "none"
     /\ lastRefresh.resp.expires_in >= 0) =>
        auth.token_expires_at = lastHeaders.now + lastRefresh.resp.expires_in

\* C29 (as claimed): once start-up has accepted a configured refresh_token,
\* every token request sent by refresh() carries a refresh_token that is not
\* None, whatever the token file holds and whatever the token endpoint answers.
C29_RefreshTokenNeverNull ==
    lastRefresh.called => lastRefresh.refresh_token # None

----------------------------------------------------------------------------
(* The pyatmo-based variant (src/netatmo-exporter/client.py)               *)

\* the variables of the separated variant, which this variant leaves alone
mainVars == <<pc, creds, signalled, now, file, auth, err, devices, stations,
              metrics, cycle, trace, lastHeaders, lastRefresh, lastList,
              prevCycle, fileReads>>

\* what _auth.refresh_tokens() of pyatmo can do (lines 95, 106-114)
PyatmoRefreshOutcomes == {"ok", "ApiError", "ConnectionError", "InvalidGrantError"}

\* what weatherData.update() of pyatmo can do (lines 222-224, 279)
PyatmoUpdateOutcomes == {"ok", "ApiError", "ConnectionError"}

\* the refresh tokens the token endpoint rotates to
PyatmoRefreshTokens == {"R1", "R2"}

InitPyatmo ==
    /\ Init
    /\ file = FileAbsent
    /\ ~CredentialsMissing(creds)

\* line 218: `while running`, and the call of get_authorization
PyatmoStartCycle ==
    /\ pyatmo.pc = "top"
    /\ pyatmo.cycle < MaxCycles
    /\ pyatmo' = [pyatmo EXCEPT !.pc = "authorize", !.cycle = @ + 1,
                                !.failures = 0, !.err = "none"]
    /\ UNCHANGED mainVars

\* lines 86-114: one pass of `while True` in get_authorization.  Every pass
\* sends a token request.  ConnectionError is logged ("Retrying in
\* {interval} second(s)...") and passed, and the next pass starts at once.
PyatmoAuthorize ==
    /\ pyatmo.pc = "authorize"
    /\ \E out \in PyatmoRefreshOutcomes, rt \in PyatmoRefreshTokens :
         /\ out = "ConnectionError" => pyatmo.failures < MaxAttempts
         /\ out # "ok" => rt = "R1"
         /\ pyatmo' =
              [pyatmo EXCEPT
                 !.pc = CASE out = "ok" -> "update"
                          [] out = "ConnectionError" -> "authorize"
                          [] OTHER -> "exited",
                 !.err = IF out \in {"ok", "ConnectionError"} THEN "none"
                         ELSE "SystemExit",
                 !.refresh_token = IF out = "ok" THEN rt ELSE @,
                 !.failures = IF out = "ConnectionError" THEN @ + 1 ELSE @,
                 !.tokens = @ + 1,
                 !.tokenAt = pyatmo.now,
                 !.gap = IF pyatmo.tokenAt = NoTime THEN NoTime
                         ELSE pyatmo.now - pyatmo.tokenAt,
                 !.retried = pyatmo.failures > 0]
    /\ UNCHANGED mainVars

\* lines 222-279: the fetch and the projection; only ApiError is caught
PyatmoUpdate ==
    /\ pyatmo.pc = "update"
    /\ \E out \in PyatmoUpdateOutcomes :
         pyatmo' = [pyatmo EXCEPT !.pc = "finally",
                                  !.err = IF out = "ok" THEN "none" ELSE out]
    /\ UNCHANGED mainVars

\* lines 278-282: finally sleeps; an exception other than ApiError then
\* ends the process
PyatmoSleep ==
    /\ pyatmo.pc = "finally"
    /\ pyatmo' = [pyatmo EXCEPT
                    !.now = @ + interval,
                    !.pc = IF pyatmo.err \in {"none", "ApiError"} THEN "top"
                           ELSE "exited"]
    /\ UNCHANGED mainVars

NextPyatmo ==
    \/ PyatmoStartCycle
    \/ PyatmoAuthorize
    \/ PyatmoUpdate
    \/ PyatmoSleep

SpecPyatmo == InitPyatmo /\ [][NextPyatmo]_vars

\* C30 (as claimed): in the pyatmo-based variant, after get_authorization
\* failed to connect (ConnectionError) it waits interval seconds before
\* the next attempt: the token request of a retry is sent at least interval
\* seconds after the token request that failed.
C30_RetryWaitsInterval ==
    pyatmo.retried => pyatmo.gap >= interval

====
